---- MODULE Spec2Model ----
(***************************************************************************)
(* Model of src/ticket_assignment.py: TicketAssignmentSystem.              *)
(*                                                                         *)
(* Texts are sequences of words (the string is the words joined by single  *)
(* blanks).  Real-valued scores are fixed-point integers: a score s of the *)
(* program is the integer s * SCALE, a composite score is s * COMPOSITE.   *)
(* Ticket priorities are whole numbers in the program (1.0 + 2.0h + 1.0m)  *)
(* and are kept as integers.                                               *)
(***************************************************************************)
EXTENDS Integers, Sequences, FiniteSets, TLC

VARIABLES agents, tickets, pc, sorted_tickets, idx,
          agent_assignment_counts, assignments, warnings

vars == <<agents, tickets, pc, sorted_tickets, idx,
          agent_assignment_counts, assignments, warnings>>

\* ------------------------------------------------------------------------
\* Bounds of the model
\* ------------------------------------------------------------------------
MaxAgents == 2

MaxTickets == 2

\* ------------------------------------------------------------------------
\* Fixed-point units
\* ------------------------------------------------------------------------
SCALE == 10 * 10 * 10

COMPOSITE == SCALE * 100

Min(a, b) == IF a <= b THEN a ELSE b

\* ------------------------------------------------------------------------
\* Text: str.lower, re.sub(r'[^\w\s]', ' ', text).split(), `x in text`
\* ------------------------------------------------------------------------
\* str.lower() on the words the modelled tickets are written with.
Lower(w) ==
    CASE w = "VPN" -> "vpn"
      [] w = "Tunnel" -> "tunnel"
      [] w = "Critical" -> "critical"
      [] w = "Laptop" -> "laptop"
      [] w = "Invoice" -> "invoice"
      [] w = "Please" -> "please"
      [] OTHER -> w

LowerText(text) == [i \in DOMAIN text |-> Lower(text[i])]

\* re.sub(r'[^\w\s]', ' ', word).split(): the alphanumeric runs of one word.
Split(w) == IF w = "business-critical" THEN <<"business", "critical">> ELSE <<w>>

RECURSIVE SplitAll(_)
SplitAll(text) ==
    IF text = <<>> THEN <<>> ELSE Split(Head(text)) \o SplitAll(Tail(text))

\* <<a, b>>: string a is a proper substring of the single word b.
ProperInfix ==
    { <<"critical", "business-critical">>,
      <<"connection", "disconnection">> }

\* `a in b` for two strings without blanks.
InWord(a, b) == a = b \/ <<a, b>> \in ProperInfix

\* b.endswith(a) and b.startswith(a) for two strings without blanks.
EndsWith(b, a) == a = b

StartsWith(b, a) == a = b

\* `phrase in text`: phrase and text are word sequences standing for the
\* blank-joined strings; a phrase of several words has to meet the end of a
\* word, whole words, and the start of a word.
PhraseIn(phrase, text) ==
    IF Len(phrase) = 1
    THEN \E i \in DOMAIN text : InWord(phrase[1], text[i])
    ELSE \E i \in 1..(Len(text) - Len(phrase) + 1) :
            /\ EndsWith(text[i], phrase[1])
            /\ StartsWith(text[i + Len(phrase) - 1], phrase[Len(phrase)])
            /\ \A j \in 2..(Len(phrase) - 1) : text[i + j - 1] = phrase[j]

\* `a in b` where a is a single token and b a keyword (a phrase).
TokenInPhrase(a, phrase) == \E j \in DOMAIN phrase : InWord(a, phrase[j])

\* `b in a` where b is a keyword (a phrase) and a a single token.
PhraseInToken(phrase, a) == Len(phrase) = 1 /\ InWord(phrase[1], a)

\* Sum of a sequence of integers.
RECURSIVE SumSeq(_)
SumSeq(s) == IF s = <<>> THEN 0 ELSE Head(s) + SumSeq(Tail(s))

\* ------------------------------------------------------------------------
\* calculate_ticket_priority
\* ------------------------------------------------------------------------
high_priority_keywords ==
    << <<"critical">>, <<"urgent">>, <<"emergency">>, <<"down">>, <<"outage">>,
       <<"breach">>, <<"security">>, <<"production">>, <<"business-critical">>,
       <<"attack">>, <<"locked">>, <<"unreachable">>,
       <<"slow", "performance">>, <<"phishing">> >>

medium_priority_keywords ==
    << <<"unable">>, <<"error">>, <<"problem">>, <<"issue">>, <<"failed">>,
       <<"not", "working">>, <<"access", "denied">>, <<"boot">>, <<"laptop">> >>

\* `keyword in title_lower or keyword in description_lower`
KeywordInTicket(keyword, ticket) ==
    \/ PhraseIn(keyword, LowerText(ticket.title))
    \/ PhraseIn(keyword, LowerText(ticket.description))

\* One `for keyword in ...: if ...: priority_score += step` loop.
PriorityLoop(keywords, ticket, step) ==
    SumSeq([i \in DOMAIN keywords |->
              IF KeywordInTicket(keywords[i], ticket) THEN step ELSE 0])

PriorityUncapped(ticket) ==
    1 + PriorityLoop(high_priority_keywords, ticket, 2)
      + PriorityLoop(medium_priority_keywords, ticket, 1)

\* Variant: the cap of 5.0 is left out.
calculate_ticket_priority_NoCap(ticket) == PriorityUncapped(ticket)

calculate_ticket_priority(ticket) == Min(PriorityUncapped(ticket), 5)

\* ------------------------------------------------------------------------
\* extract_keywords_from_ticket, has_domain_term
\* ------------------------------------------------------------------------
stop_words ==
    {"the", "a", "an", "and", "or", "but", "in", "on", "at", "to", "for", "of",
     "with", "by", "is", "are", "was", "were", "be", "been", "have", "has",
     "had", "do", "does", "did", "will", "would", "could", "should", "may",
     "might", "must", "can", "this", "that", "these", "those", "we", "they",
     "it", "he", "she", "you", "i", "our", "their", "his", "her", "your", "my"}

\* Tokens of at most two characters among the words the model uses.
ShortWords == {"is", "a", "i", "pc", "to", "it", "os"}

ticket_text(ticket) == LowerText(ticket.title \o ticket.description)

extract_keywords_from_ticket(ticket) ==
    SelectSeq(SplitAll(ticket_text(ticket)),
              LAMBDA word : word \notin ShortWords /\ word \notin stop_words)

\* re.search(r'\b' + term + r'\b', text) for one term (a phrase).
TermAtWordBoundary(term, text) ==
    IF Len(term) = 1
    THEN \E i \in DOMAIN text :
            \E j \in DOMAIN Split(text[i]) : Split(text[i])[j] = term[1]
    ELSE \E i \in 1..(Len(text) - Len(term) + 1) :
            /\ Split(text[i])[Len(Split(text[i]))] = term[1]
            /\ Split(text[i + Len(term) - 1])[1] = term[Len(term)]
            /\ \A j \in 2..(Len(term) - 1) : text[i + j - 1] = term[j]

has_domain_term(text, terms) ==
    \E k \in DOMAIN terms : TermAtWordBoundary(terms[k], text)

\* ------------------------------------------------------------------------
\* _build_skill_keywords: the entries of the skills the modelled agents hold
\* ------------------------------------------------------------------------
skill_keywords(skill) ==
    CASE skill = "VPN_Troubleshooting" ->
            << <<"vpn">>, <<"remote">>, <<"tunnel">>, <<"authentication">>,
               <<"dropped">>, <<"disconnection">> >>
      [] skill = "Windows_OS" ->
            << <<"windows">>, <<"desktop">>, <<"workstation">>, <<"pc">> >>
      [] OTHER -> <<>>

\* skill.lower().replace('_', ' ').split()
skill_name_words(skill) ==
    CASE skill = "VPN_Troubleshooting" -> <<"vpn", "troubleshooting">>
      [] skill = "Windows_OS" -> <<"windows", "os">>
      [] OTHER -> <<>>

\* `term in skill` for the terms of the domain chain.
SkillNameHas(skill) ==
    CASE skill = "VPN_Troubleshooting" -> {"VPN"}
      [] skill = "Windows_OS" -> {"Windows"}
      [] OTHER -> {}

\* ------------------------------------------------------------------------
\* calculate_skill_match_score
\* ------------------------------------------------------------------------
is_linux_ticket(text) ==
    has_domain_term(text, << <<"linux">>, <<"unix">>, <<"chmod">>,
                             <<"directory", "permissions">> >>)

is_windows_ticket(text) ==
    has_domain_term(text, << <<"windows">>, <<"active", "directory">>,
                             <<"outlook">>, <<"microsoft">> >>)

is_mac_ticket(text) ==
    has_domain_term(text, << <<"mac">>, <<"macos">>, <<"macbook">>, <<"samba">> >>)

is_security_ticket(text) ==
    has_domain_term(text, << <<"security">>, <<"phishing">>, <<"attack">>,
                             <<"breach">>, <<"locked">>, <<"suspicious">> >>)

is_hardware_ticket(text) ==
    has_domain_term(text, << <<"laptop">>, <<"hardware">>, <<"boot">>,
                             <<"printer">>, <<"diagnostic">> >>)

is_network_ticket(text) ==
    has_domain_term(text, << <<"network">>, <<"vpn">>, <<"connection">>,
                             <<"firewall">>, <<"dns">> >>)

is_database_ticket(text) ==
    has_domain_term(text, << <<"database">>, <<"sql">>, <<"query">>,
                             <<"performance">>, <<"slow">> >>)

is_cloud_ticket(text) ==
    has_domain_term(text, << <<"azure">>, <<"aws">>, <<"cloud">>, <<"website">>,
                             <<"app", "service">> >>)

AnyIn(terms, skill) == terms \cap SkillNameHas(skill) # {}

\* The if/elif chain; the multiplier times 10.
domain_multiplier(skill, text) ==
    CASE AnyIn({"Linux"}, skill) /\ is_linux_ticket(text) -> 20
      [] AnyIn({"Linux"}, skill) /\ is_windows_ticket(text) -> 3
      [] AnyIn({"Windows", "Active_Directory", "Microsoft"}, skill)
            /\ is_windows_ticket(text) -> 20
      [] AnyIn({"Windows", "Active_Directory", "Microsoft"}, skill)
            /\ is_linux_ticket(text) -> 3
      [] AnyIn({"Mac"}, skill) /\ is_mac_ticket(text) -> 20
      [] AnyIn({"Security", "Phishing", "Antivirus", "Firewall"}, skill)
            /\ is_security_ticket(text) -> 18
      [] AnyIn({"Hardware", "Laptop", "Printer"}, skill)
            /\ is_hardware_ticket(text) -> 18
      [] AnyIn({"Network", "VPN", "DNS", "Routing"}, skill)
            /\ is_network_ticket(text) -> 18
      [] AnyIn({"Database"}, skill) /\ is_database_ticket(text) -> 20
      [] AnyIn({"Cloud", "Azure", "AWS", "DevOps"}, skill)
            /\ is_cloud_ticket(text) -> 18
      [] OTHER -> 10

\* Exact phrase matching: +3 for every keyword found in the ticket text.
PhraseScore(keywords, text) ==
    SumSeq([i \in DOMAIN keywords |->
              IF PhraseIn(keywords[i], text) THEN 3 ELSE 0])

\* Token-level matching: every (keyword, ticket keyword) pair gives 2 when
\* equal, 1 when one contains the other.
TokenScore(keywords, ticket_keywords) ==
    SumSeq([i \in DOMAIN keywords |->
        SumSeq([j \in DOMAIN ticket_keywords |->
            IF keywords[i] = <<ticket_keywords[j]>> THEN 2
            ELSE IF \/ PhraseInToken(keywords[i], ticket_keywords[j])
                    \/ TokenInPhrase(ticket_keywords[j], keywords[i])
                 THEN 1 ELSE 0])])

\* Skill name matching: +2 for every word of the name among the ticket keywords.
NameScore(skill, ticket_keywords) ==
    SumSeq([i \in DOMAIN skill_name_words(skill) |->
        IF \E j \in DOMAIN ticket_keywords :
               ticket_keywords[j] = skill_name_words(skill)[i]
        THEN 2 ELSE 0])

skill_score(skill, ticket) ==
    PhraseScore(skill_keywords(skill), ticket_text(ticket))
    + TokenScore(skill_keywords(skill), extract_keywords_from_ticket(ticket))
    + NameScore(skill, extract_keywords_from_ticket(ticket))

\* weighted_score times 10 of one held skill (0 when the skill did not match).
weighted_score(entry, ticket) ==
    LET raw == skill_score(entry.skill, ticket)
    IN  IF raw > 0
        THEN raw * entry.level * domain_multiplier(entry.skill, ticket_text(ticket))
        ELSE 0

\* math.sqrt(n) * 1000 for the numbers of skills an agent of the model holds.
Sqrt1000(n) ==
    CASE n = 1 -> 1000
      [] n = 2 -> 1414
      [] n = 3 -> 1732
      [] OTHER -> 2000

\* normalized_score * SCALE; agent.skills is the insertion-ordered mapping,
\* a sequence of [skill, level] entries.
calculate_skill_match_score(ticket, agent) ==
    IF Len(agent.skills) > 0
    THEN (SumSeq([i \in DOMAIN agent.skills |->
                     weighted_score(agent.skills[i], ticket)]) * 100 * 1000)
            \div Sqrt1000(Len(agent.skills))
    ELSE 0

matched_skills(ticket, agent) ==
    SelectSeq([i \in DOMAIN agent.skills |-> agent.skills[i].skill],
              LAMBDA skill : skill_score(skill, ticket) > 0)

\* ------------------------------------------------------------------------
\* Values of the modelled data sets
\* ------------------------------------------------------------------------
LoadValues == {0, 7, 8}

ExperienceValues == {-600, 20}

SkillMaps ==
    { <<>>,
      <<[skill |-> "VPN_Troubleshooting", level |-> 8],
        [skill |-> "Windows_OS", level |-> 9]>> }

\* <<skills, current_load, availability_status, experience_level>> of an
\* agent: every combination for an Available agent, one agent that is not.
AgentValues ==
    (SkillMaps \X LoadValues \X {"Available"} \X ExperienceValues)
    \cup { << <<[skill |-> "VPN_Troubleshooting", level |-> 8],
                [skill |-> "Windows_OS", level |-> 9]>>, 8, "Busy", 20 >> }

TicketTexts ==
    { [title |-> <<"VPN", "connection", "dropped">>,
       description |-> <<"Tunnel", "is", "down">>],
      [title |-> <<"Critical", "outage">>,
       description |-> <<"business-critical", "server", "unreachable">>],
      [title |-> <<"Laptop", "boot", "error">>,
       description |-> <<"the", "desktop", "is", "slow">>],
      [title |-> <<"Invoice", "question">>,
       description |-> <<"Please", "advise">>] }

\* The scores that depend on the texts and the skill mappings only, tabulated
\* for the texts and mappings of the data sets (the operators above compute
\* every entry; the tables only keep the model checker from recomputing them).
TextOf(ticket) == [title |-> ticket.title, description |-> ticket.description]

PriorityTable ==
    { [text |-> text, priority |-> calculate_ticket_priority(text)] :
        text \in TicketTexts }

SkillMatchTable ==
    { [text |-> x[1], skills |-> x[2],
       score |-> calculate_skill_match_score(x[1], [skills |-> x[2]]),
       matched |-> matched_skills(x[1], [skills |-> x[2]])] :
        x \in TicketTexts \X SkillMaps }

ticket_priority(ticket) ==
    (CHOOSE e \in PriorityTable : e.text = TextOf(ticket)).priority

skill_match(ticket, agent) ==
    CHOOSE e \in SkillMatchTable :
        e.text = TextOf(ticket) /\ e.skills = agent.skills

\* ------------------------------------------------------------------------
\* calculate_workload_score, calculate_experience_score
\* ------------------------------------------------------------------------
max_reasonable_load == 8

\* math.exp(-(total_load / 3.0)) * SCALE for total_load in 0..7, rounded.
ExpDecay(total_load) ==
    CASE total_load = 0 -> 1000
      [] total_load = 1 -> 717
      [] total_load = 2 -> 513
      [] total_load = 3 -> 368
      [] total_load = 4 -> 264
      [] total_load = 5 -> 189
      [] total_load = 6 -> 135
      [] OTHER -> 97

load_score(total_load) ==
    IF total_load >= max_reasonable_load THEN SCALE \div 10 ELSE ExpDecay(total_load)

\* availability_factor times 10
availability_factor(agent) ==
    IF agent.availability_status = "Available" THEN 10 ELSE 2

calculate_workload_score(agent, current_assignments) ==
    (load_score(agent.current_load + current_assignments)
        * availability_factor(agent)) \div 10

max_experience == 15

calculate_experience_score(agent) ==
    (Min(agent.experience_level, max_experience) * SCALE) \div max_experience

\* ------------------------------------------------------------------------
\* calculate_composite_score_with_fairness
\* ------------------------------------------------------------------------
skill_threshold == 5

\* skill_penalty times 10
skill_penalty(skill) == IF skill < skill_threshold * SCALE THEN 3 ELSE 10

\* The record score_details; composite_score is the score * COMPOSITE (the
\* weights are 6, 3 and 1 tenths).
calculate_composite_score_with_fairness(ticket, agent, current_assignments) ==
    LET match == skill_match(ticket, agent)
        skill == match.score
        workload == calculate_workload_score(agent, current_assignments)
        experience == calculate_experience_score(agent)
        priority == ticket_priority(ticket)
    IN  [ skill_score |-> skill,
          workload_score |-> workload,
          experience_score |-> experience,
          ticket_priority |-> priority,
          matched_skills |-> match.matched,
          current_assignments |-> current_assignments,
          skill_penalty |-> skill_penalty(skill),
          composite_score |->
              (skill * 6 + workload * 3 + experience * 1)
                  * priority * skill_penalty(skill) ]

\* ------------------------------------------------------------------------
\* _generate_rationale: the parts of the sentence, in order
\* ------------------------------------------------------------------------
LevelOf(agent, skill) ==
    LET i == CHOOSE i \in DOMAIN agent.skills : agent.skills[i].skill = skill
    IN  agent.skills[i].level

_generate_rationale(agent, details) ==
    [ assigned_to |-> <<agent.name, agent.agent_id>>,
      top_skills |->
          [i \in 1..Min(3, Len(details.matched_skills)) |->
              <<details.matched_skills[i], LevelOf(agent, details.matched_skills[i])>>],
      workload |->
          IF agent.current_load <= 2 THEN "and low current workload"
          ELSE IF agent.current_load <= 4 THEN "and moderate workload"
          ELSE "",
      experience |->
          IF agent.experience_level >= 9 THEN "with extensive experience"
          ELSE IF agent.experience_level >= 7 THEN "with solid experience"
          ELSE "" ]

\* ------------------------------------------------------------------------
\* The data set: load_data reads the agents and the tickets
\* ------------------------------------------------------------------------
AgentIdAt(i) ==
    CASE i = 1 -> "agent_001"
      [] i = 2 -> "agent_002"
      [] i = 3 -> "agent_003"
      [] OTHER -> "agent_004"

TicketIdAt(i) ==
    CASE i = 1 -> "TKT-001"
      [] i = 2 -> "TKT-002"
      [] i = 3 -> "TKT-003"
      [] OTHER -> "TKT-004"

AgentAt(i, skills, load, status, experience) ==
    [ agent_id |-> AgentIdAt(i), name |-> AgentIdAt(i), skills |-> skills,
      current_load |-> load, availability_status |-> status,
      experience_level |-> experience ]

TicketAt(i, text) ==
    [ ticket_id |-> TicketIdAt(i), title |-> text.title,
      description |-> text.description ]

AgentLists ==
    UNION { { [i \in 1..n |-> AgentAt(i, f[i][1], f[i][2], f[i][3], f[i][4])] :
                f \in [1..n -> AgentValues] } :
            n \in 0..MaxAgents }

TicketLists ==
    UNION { { [i \in 1..n |-> TicketAt(i, f[i])] : f \in [1..n -> TicketTexts] } :
            n \in 0..MaxTickets }

\* ------------------------------------------------------------------------
\* assign_tickets
\* ------------------------------------------------------------------------
\* Variant: counters only for the agents that are Available.
InitialCounts_AvailableOnly(agent_list) ==
    [id \in {agent_list[i].agent_id :
                i \in {j \in DOMAIN agent_list :
                          agent_list[j].availability_status = "Available"}} |-> 0]

\* {agent['agent_id']: 0 for agent in self.agents}
InitialCounts(agent_list) ==
    [id \in {agent_list[i].agent_id : i \in DOMAIN agent_list} |-> 0]

\* Variant: an ascending sort read backwards, which reverses equal priorities.
RECURSIVE SortByPriority_Reversed(_)
SortByPriority_Reversed(ticket_list) ==
    IF ticket_list = <<>> THEN <<>>
    ELSE LET t == ticket_list[Len(ticket_list)]
             s == SortByPriority_Reversed(SubSeq(ticket_list, 1, Len(ticket_list) - 1))
             k == ticket_priority(t)
         IN  SelectSeq(s, LAMBDA u : ticket_priority(u) > k)
             \o <<t>>
             \o SelectSeq(s, LAMBDA u : ticket_priority(u) <= k)

\* sorted(self.tickets, key=calculate_ticket_priority, reverse=True): stable,
\* tickets of equal priority keep their input order.
RECURSIVE SortByPriority(_)
SortByPriority(ticket_list) ==
    IF ticket_list = <<>> THEN <<>>
    ELSE LET t == ticket_list[Len(ticket_list)]
             s == SortByPriority(SubSeq(ticket_list, 1, Len(ticket_list) - 1))
             k == ticket_priority(t)
         IN  SelectSeq(s, LAMBDA u : ticket_priority(u) >= k)
             \o <<t>>
             \o SelectSeq(s, LAMBDA u : ticket_priority(u) < k)

\* Variant: the availability check is left out.
IsCandidate_Any(agent) == TRUE

\* `if agent['availability_status'] != 'Available': continue`
IsCandidate(agent) == agent.availability_status = "Available"

\* Variant: `>=`, the last agent of equal score wins.
Improves_OrEqual(score, best_score) == score >= best_score

\* `if score > best_score`
Improves(score, best_score) == score > best_score

\* best_agent = None, best_score = -1, best_details = None (best_agent 0 and
\* best_details <<>> stand for None)
NoBest == [best_agent |-> 0, best_score |-> -1 * COMPOSITE, best_details |-> <<>>]

\* The inner loop over self.agents from position i on.
RECURSIVE EvaluateAgents(_, _, _, _, _)
EvaluateAgents(agent_list, counts, ticket, i, best) ==
    IF i > Len(agent_list) THEN best
    ELSE IF ~IsCandidate(agent_list[i])
         THEN EvaluateAgents(agent_list, counts, ticket, i + 1, best)
         ELSE LET details == calculate_composite_score_with_fairness(
                                 ticket, agent_list[i], counts[agent_list[i].agent_id])
              IN  IF Improves(details.composite_score, best.best_score)
                  THEN EvaluateAgents(agent_list, counts, ticket, i + 1,
                                      [best_agent |-> i,
                                       best_score |-> details.composite_score,
                                       best_details |-> details])
                  ELSE EvaluateAgents(agent_list, counts, ticket, i + 1, best)

Best == EvaluateAgents(agents, agent_assignment_counts, sorted_tickets[idx], 1, NoBest)

Init ==
    /\ agents \in AgentLists
    /\ tickets \in TicketLists
    /\ pc = "start"
    /\ sorted_tickets = <<>>
    /\ idx = 0
    /\ agent_assignment_counts = <<>>
    /\ assignments = <<>>
    /\ warnings = <<>>

\* Lines 329-337: the empty result, the counter table, the sorted tickets.
Begin ==
    /\ pc = "start"
    /\ assignments' = <<>>
    /\ agent_assignment_counts' = InitialCounts(agents)
    /\ sorted_tickets' = SortByPriority(tickets)
    /\ idx' = 1
    /\ pc' = "loop"
    /\ UNCHANGED <<agents, tickets, warnings>>

\* Variant: the assignment is also written into the agent's current_load.
AssignTicket_UpdatesLoad ==
    /\ pc = "loop"
    /\ idx <= Len(sorted_tickets)
    /\ LET ticket == sorted_tickets[idx]
           best == Best
           best_agent == agents[best.best_agent]
       IN  /\ best.best_agent # 0
           /\ assignments' = Append(assignments,
                  [ ticket_id |-> ticket.ticket_id,
                    title |-> ticket.title,
                    assigned_agent_id |-> best_agent.agent_id,
                    rationale |-> _generate_rationale(best_agent, best.best_details) ])
           /\ agent_assignment_counts' =
                  [agent_assignment_counts EXCEPT ![best_agent.agent_id] = @ + 1]
           /\ agents' = [agents EXCEPT ![best.best_agent].current_load = @ + 1]
    /\ idx' = idx + 1
    /\ UNCHANGED <<tickets, pc, sorted_tickets, warnings>>

\* One iteration of the loop that finds a best agent: lines 339-372.
AssignTicket ==
    /\ pc = "loop"
    /\ idx <= Len(sorted_tickets)
    /\ LET ticket == sorted_tickets[idx]
           best == Best
           best_agent == agents[best.best_agent]
       IN  /\ best.best_agent # 0
           /\ assignments' = Append(assignments,
                  [ ticket_id |-> ticket.ticket_id,
                    title |-> ticket.title,
                    assigned_agent_id |-> best_agent.agent_id,
                    rationale |-> _generate_rationale(best_agent, best.best_details) ])
           /\ agent_assignment_counts' =
                  [agent_assignment_counts EXCEPT ![best_agent.agent_id] = @ + 1]
    /\ idx' = idx + 1
    /\ UNCHANGED <<agents, tickets, pc, sorted_tickets, warnings>>

\* Variant: an unassignable ticket ends the batch.
SkipTicket_Halt ==
    /\ pc = "loop"
    /\ idx <= Len(sorted_tickets)
    /\ Best.best_agent = 0
    /\ warnings' = Append(warnings, sorted_tickets[idx].ticket_id)
    /\ pc' = "done"
    /\ UNCHANGED <<agents, tickets, idx, sorted_tickets,
                   agent_assignment_counts, assignments>>

\* One iteration of the loop that finds none: lines 339-357, 373-374.
SkipTicket ==
    /\ pc = "loop"
    /\ idx <= Len(sorted_tickets)
    /\ Best.best_agent = 0
    /\ warnings' = Append(warnings, sorted_tickets[idx].ticket_id)
    /\ idx' = idx + 1
    /\ UNCHANGED <<agents, tickets, pc, sorted_tickets,
                   agent_assignment_counts, assignments>>

\* Variant: the loop leaves out the last ticket.
Return_Early ==
    /\ pc = "loop"
    /\ idx >= Len(sorted_tickets)
    /\ pc' = "done"
    /\ UNCHANGED <<agents, tickets, sorted_tickets, idx,
                   agent_assignment_counts, assignments, warnings>>

\* Line 376: return assignments.
Return ==
    /\ pc = "loop"
    /\ idx > Len(sorted_tickets)
    /\ pc' = "done"
    /\ UNCHANGED <<agents, tickets, sorted_tickets, idx,
                   agent_assignment_counts, assignments, warnings>>

Next == Begin \/ AssignTicket \/ SkipTicket \/ Return

Spec == Init /\ [][Next]_vars

FairSpec == Spec /\ WF_vars(Next)

\* ------------------------------------------------------------------------
\* Properties
\* ------------------------------------------------------------------------
Available(i) == agents[i].availability_status = "Available"

SomeAvailable == \E i \in DOMAIN agents : Available(i)

\* Position in self.agents of the agent an assignment names (0 when none).
AssignedIndex(assignment) ==
    IF \E i \in DOMAIN agents : agents[i].agent_id = assignment.assigned_agent_id
    THEN CHOOSE i \in DOMAIN agents : agents[i].agent_id = assignment.assigned_agent_id
    ELSE 0

\* Position in self.tickets of the ticket with an identifier (0 when none).
TicketIndex(ticket_id) ==
    IF \E i \in DOMAIN tickets : tickets[i].ticket_id = ticket_id
    THEN CHOOSE i \in DOMAIN tickets : tickets[i].ticket_id = ticket_id
    ELSE 0

CompositeOf(ticket, i, count) ==
    calculate_composite_score_with_fairness(ticket, agents[i], count).composite_score

\* C1: no emitted assignment has as assigned_agent_id an agent whose
\* availability_status is anything other than exactly "Available".
C1_OnlyAvailableAssigned ==
    \A k \in DOMAIN assignments :
        /\ AssignedIndex(assignments[k]) # 0
        /\ Available(AssignedIndex(assignments[k]))

\* C1 witness: the first ticket went to an Available agent although an agent
\* that is not Available scores strictly higher on it.
C1_Witness ==
    /\ Len(assignments) >= 1
    /\ assignments[1].ticket_id = sorted_tickets[1].ticket_id
    /\ \E i \in DOMAIN agents :
          /\ ~Available(i)
          /\ CompositeOf(sorted_tickets[1], i, 0)
                > CompositeOf(sorted_tickets[1], AssignedIndex(assignments[1]), 0)

\* C2 as stated: a ticket is skipped only when no agent is Available, so a
\* run with an Available agent surfaces no warning.
C2_SkippedOnlyWhenNoneAvailable == SomeAvailable => warnings = <<>>

\* C3: when no agent is Available every ticket of the batch is visited and
\* gives one warning naming it, no assignment is emitted, and the loop goes
\* on after an unassignable ticket.
C3_AllWarnedWhenNoneAvailable ==
    ~SomeAvailable =>
        /\ assignments = <<>>
        /\ pc = "loop" => Len(warnings) = idx - 1
        /\ pc = "done" =>
              /\ Len(warnings) = Len(tickets)
              /\ \A i \in DOMAIN tickets :
                    Cardinality({k \in DOMAIN warnings :
                                    warnings[k] = tickets[i].ticket_id}) = 1

\* C3 witness: a finished run over two tickets with agents loaded, none of
\* them Available.
C3_Witness ==
    /\ pc = "done"
    /\ Len(agents) >= 1
    /\ ~SomeAvailable
    /\ Len(tickets) >= 2
    /\ Len(warnings) = Len(tickets)

\* The two agents of C4: the same skills, experience and availability,
\* different current_load.
TwinsWithDifferentLoad ==
    /\ Len(agents) = 2
    /\ agents[1].skills = agents[2].skills
    /\ agents[1].experience_level = agents[2].experience_level
    /\ agents[1].availability_status = agents[2].availability_status
    /\ agents[1].current_load # agents[2].current_load

LessLoaded ==
    IF agents[1].current_load < agents[2].current_load THEN agents[1] ELSE agents[2]

\* C4 as stated: with two such agents and at least two tickets, the first
\* assignment emitted goes to the agent with the smaller current_load, for
\* every pair of distinct loads and either order of the two agents.
C4_FirstToLessLoaded ==
    (TwinsWithDifferentLoad /\ Len(tickets) >= 2 /\ Len(assignments) >= 1)
        => assignments[1].assigned_agent_id = LessLoaded.agent_id

\* C5 as stated: for every agent the workload score does not increase when
\* the in-batch count goes up by one, and it is exactly 0.1 once
\* current_load + in-batch count is 8 or more, whatever the availability.
C5_WorkloadNonIncreasingFloor ==
    \A i \in DOMAIN agents :
        /\ \A n \in 0..(Len(tickets) - 1) :
              calculate_workload_score(agents[i], n + 1)
                 <= calculate_workload_score(agents[i], n)
        /\ \A n \in 0..Len(tickets) :
              agents[i].current_load + n >= 8
                 => calculate_workload_score(agents[i], n) = SCALE \div 10

\* C6: ticket priorities along the returned list do not increase, and two
\* assigned tickets of equal priority keep their order of the input list.
C6_AllocationOrder ==
    \A j \in DOMAIN assignments : \A k \in DOMAIN assignments :
        j < k =>
            LET tj == TicketIndex(assignments[j].ticket_id)
                tk == TicketIndex(assignments[k].ticket_id)
            IN  /\ tj # 0 /\ tk # 0
                /\ ticket_priority(tickets[tj]) >= ticket_priority(tickets[tk])
                /\ ticket_priority(tickets[tj]) = ticket_priority(tickets[tk])
                      => tj < tk

\* C6 witness: a finished run whose output starts with the second ticket of
\* the input, both tickets assigned.
C6_Witness ==
    /\ pc = "done"
    /\ Len(assignments) = 2
    /\ TicketIndex(assignments[1].ticket_id) > TicketIndex(assignments[2].ticket_id)

\* The urgency phrases a text matches, by position in the two lists.
C7_Matches ==
    { [ text |-> text,
        high |-> {i \in DOMAIN high_priority_keywords :
                     KeywordInTicket(high_priority_keywords[i], text)},
        medium |-> {i \in DOMAIN medium_priority_keywords :
                       KeywordInTicket(medium_priority_keywords[i], text)} ] :
        text \in TicketTexts }

C7_MatchesOf(ticket) == CHOOSE e \in C7_Matches : e.text = TextOf(ticket)

LoadedAgentIds == {agents[i].agent_id : i \in DOMAIN agents}

\* C8: throughout a run the keys of the in-batch counter table are exactly
\* the identifiers of the loaded agents, every counter starts at 0, and no
\* counter ever decreases.
C8_CounterTable ==
    [][ /\ pc' # "start" => DOMAIN agent_assignment_counts' = LoadedAgentIds'
        /\ (pc = "start" /\ pc' # "start") =>
              \A id \in LoadedAgentIds' : agent_assignment_counts'[id] = 0
        /\ pc # "start" =>
              \A id \in DOMAIN agent_assignment_counts :
                  /\ id \in DOMAIN agent_assignment_counts'
                  /\ agent_assignment_counts'[id] >= agent_assignment_counts[id]
      ]_vars

\* C8 witness: a finished run with an agent that is not Available (counter
\* still 0) beside an agent whose counter went up to 2.
C8_Witness ==
    /\ pc = "done"
    /\ \E i \in DOMAIN agents :
          ~Available(i) /\ agent_assignment_counts[agents[i].agent_id] = 0
    /\ \E i \in DOMAIN agents : agent_assignment_counts[agents[i].agent_id] = 2

\* C9: the agent a ticket is assigned to is Available, no Available agent
\* has a greater composite score (each computed with its in-batch counter at
\* that decision), and every Available agent earlier in the agent list has a
\* strictly smaller one.
C9_BestAvailableFirstOnTies ==
    [][ assignments' # assignments =>
          LET ticket == sorted_tickets[idx]
              a == assignments'[Len(assignments')]
              best == AssignedIndex(a)
              score(i) == CompositeOf(ticket, i,
                              agent_assignment_counts[agents[i].agent_id])
          IN  /\ a.ticket_id = ticket.ticket_id
              /\ best # 0
              /\ Available(best)
              /\ \A i \in DOMAIN agents : Available(i) => score(i) <= score(best)
              /\ \A i \in DOMAIN agents :
                    (Available(i) /\ i < best) => score(i) < score(best)
      ]_vars

\* C9 witness: two Available agents alike in everything; the first ticket
\* went to the first of them (an exact tie), the second ticket to the second
\* (the first one's counter had gone up).
C9_Witness ==
    /\ Len(agents) = 2
    /\ Available(1) /\ Available(2)
    /\ agents[1].skills = agents[2].skills
    /\ agents[1].current_load = agents[2].current_load
    /\ agents[1].experience_level = agents[2].experience_level
    /\ Len(assignments) = 2
    /\ assignments[1].assigned_agent_id = agents[1].agent_id
    /\ assignments[2].assigned_agent_id = agents[2].agent_id

\* Every ticket of the input has given exactly one assignment or exactly one
\* warning, never both.
C10_EveryTicketOnce ==
    /\ Len(assignments) + Len(warnings) = Len(tickets)
    /\ \A i \in DOMAIN tickets :
          Cardinality({k \in DOMAIN assignments :
                          assignments[k].ticket_id = tickets[i].ticket_id})
          + Cardinality({k \in DOMAIN warnings :
                            warnings[k] = tickets[i].ticket_id}) = 1

\* C10: the allocation pass always terminates, and in its terminal state
\* every input ticket has been visited exactly once: the assignments and the
\* warned tickets together are the tickets, each once.
C10_TerminatesEveryTicketOnce ==
    /\ <>(pc = "done")
    /\ [](pc = "done" => C10_EveryTicketOnce)

\* C10 witness: a finished run in which one ticket was assigned and another
\* gave a warning.
C10_Witness ==
    /\ pc = "done"
    /\ Len(assignments) >= 1
    /\ Len(warnings) >= 1
    /\ Len(assignments) + Len(warnings) = Len(tickets)

\* C11 as stated: for every agent the experience score is
\* min(experience_level, 15) / 15 and lies in [0, 1], for every integer
\* experience_level.
C11_ExperienceScoreInUnitRange ==
    \A i \in DOMAIN agents :
        LET level == agents[i].experience_level
            score == calculate_experience_score(agents[i])
        IN  /\ score = ((IF level < 15 THEN level ELSE 15) * SCALE) \div 15
            /\ score >= 0
            /\ score <= SCALE

\* Number of emitted assignments whose assigned_agent_id is id.
AssignedTo(assignment_list, id) ==
    Cardinality({k \in DOMAIN assignment_list :
                    assignment_list[k].assigned_agent_id = id})

\* The in-batch counters, one per agent in agent-list order.
CountersOf(agent_list, counts) ==
    [i \in 1..Len(agent_list) |-> counts[agent_list[i].agent_id]]

\* C12: at every ticket-decision boundary each agent's in-batch counter
\* equals the number of assignments emitted so far for that agent, so the
\* counters sum to the length of the assignment list; an emitted assignment
\* raises exactly one counter (the assigned agent's) by exactly 1, a skipped
\* ticket raises none; and the agent records, current_load included, are
\* never changed.
C12_CountersMatchAssignments ==
    [][ /\ agents' = agents
        /\ pc' # "start" =>
              /\ \A id \in LoadedAgentIds' :
                    agent_assignment_counts'[id] = AssignedTo(assignments', id)
              /\ SumSeq(CountersOf(agents', agent_assignment_counts'))
                    = Len(assignments')
        /\ pc = "loop" =>
              \/ /\ assignments' = assignments
                 /\ agent_assignment_counts' = agent_assignment_counts
              \/ /\ Len(assignments') = Len(assignments) + 1
                 /\ SubSeq(assignments', 1, Len(assignments)) = assignments
                 /\ warnings' = warnings
                 /\ LET id == assignments'[Len(assignments')].assigned_agent_id
                    IN  /\ id \in DOMAIN agent_assignment_counts
                        /\ agent_assignment_counts' =
                               [agent_assignment_counts EXCEPT ![id] = @ + 1]
        /\ (pc = "loop" /\ warnings' # warnings) =>
              /\ assignments' = assignments
              /\ agent_assignment_counts' = agent_assignment_counts
      ]_vars

\* C12 witness: a finished run of two tickets that went to two different
\* agents, each of whose counters is 1, with current_load as loaded.
C12_Witness ==
    /\ pc = "done"
    /\ Len(assignments) = 2
    /\ assignments[1].assigned_agent_id # assignments[2].assigned_agent_id
    /\ \A k \in DOMAIN assignments :
          agent_assignment_counts[assignments[k].assigned_agent_id] = 1
    /\ SumSeq(CountersOf(agents, agent_assignment_counts)) = 2

====
